---- MODULE Spec2Model ----
(***************************************************************************)
(* Model of config_to_blender.py: load_config_file reads a JSON config,    *)
(* create_parameter_node_group compiles its "config" mapping into a node   *)
(* group with one interface socket per parameter, create_simple_materials  *)
(* creates one material per "parts" key that does not exist yet, and       *)
(* assign_materials_to_object fills the active object's material slots.    *)
(*                                                                         *)
(* Numbers are exact rationals held in quarters: the field n of a value is *)
(* four times the number, so 1.5 is n = 6 and the integer 3 is n = 12.     *)
(* Every number of the input sets is a multiple of one half, which makes   *)
(* the midpoint (lo + hi) / 2 exact in quarters.                           *)
(***************************************************************************)
EXTENDS Integers, Sequences, FiniteSets, TLC

\* ---------------------------------------------------------------- bounds
MaxListLen == 2     \* longest list-valued parameter that is enumerated
MaxEntries == 3     \* longest multi-entry config mapping that is enumerated
MaxRuns == 2        \* successive runs of load_config_file in one behaviour

\* ------------------------------------------------------- JSON values
\* A JSON scalar as json.load returns it: t is the Python type.
JInt(k) == [t |-> "int", n |-> 4 * k, s |-> ""]
JFloat(q) == [t |-> "float", n |-> q, s |-> ""]
JStr(w) == [t |-> "str", n |-> 0, s |-> w]
JBool(b) == [t |-> "bool", n |-> IF b THEN 4 ELSE 0, s |-> ""]
Unset == [t |-> "unset", n |-> 0, s |-> ""]

\* A parameter entry's value: a dict (with or without the keys "range" and
\* "count"), a list, or a scalar.
RangeDict(r) ==
  [t |-> "dict", hasRange |-> TRUE, range |-> r, hasCount |-> FALSE, count |-> <<>>, items |-> <<>>]
CountDict(c) ==
  [t |-> "dict", hasRange |-> FALSE, range |-> <<>>, hasCount |-> TRUE, count |-> c, items |-> <<>>]
BothDict(r, c) ==
  [t |-> "dict", hasRange |-> TRUE, range |-> r, hasCount |-> TRUE, count |-> c, items |-> <<>>]
OtherDict ==
  [t |-> "dict", hasRange |-> FALSE, range |-> <<>>, hasCount |-> FALSE, count |-> <<>>, items |-> <<>>]
ListValue(l) ==
  [t |-> "list", hasRange |-> FALSE, range |-> <<>>, hasCount |-> FALSE, count |-> <<>>, items |-> l]
ScalarValue ==
  [t |-> "scalar", hasRange |-> FALSE, range |-> <<>>, hasCount |-> FALSE, count |-> <<>>, items |-> <<>>]

SeqsUpTo(S, k) == UNION {[1..m -> S] : m \in 0..k}

\* ------------------------------------------------ Python built-ins used
\* isinstance(v, int): bool is a subclass of int.
IsInstanceInt(v) == v.t \in {"int", "bool"}
IsInstanceStr(v) == v.t = "str"
IsInstanceBool(v) == v.t = "bool"

\* int(v) and float(v) raise ValueError on a non-numeric string (every string
\* of the input sets is a word, not a numeral).
ConversionRaises(v) == v.t \notin {"int", "float", "bool"}

\* Truncation and floor of a number held in quarters.
TruncTowardZero(q) == IF q >= 0 THEN q \div 4 ELSE -((-q) \div 4)
FloorQuarters(q) == q \div 4

\* A variant of int(v) that rounds down: differs on negative non-integers.
PyIntFloor(v) == [t |-> "int", n |-> 4 * FloorQuarters(v.n), s |-> ""]
\* int(v) for a number: truncation toward zero.
PyInt(v) == [t |-> "int", n |-> 4 * TruncTowardZero(v.n), s |-> ""]
\* float(v) for a number.
PyFloat(v) == [t |-> "float", n |-> v.n, s |-> ""]

\* str(v): "3", "1.5", "-1.5", "2.0", "True", "False", or the string itself.
FractionDigits(r) == CASE r = 0 -> "0" [] r = 1 -> "25" [] r = 2 -> "5" [] OTHER -> "75"
AbsQ(q) == IF q < 0 THEN -q ELSE q
PyStr(v) ==
  CASE v.t = "str" -> v.s
    [] v.t = "bool" -> IF v.n = 4 THEN "True" ELSE "False"
    [] v.t = "int" -> ToString(v.n \div 4)
    [] v.t = "float" ->
         (IF v.n < 0 THEN "-" ELSE "") \o ToString(AbsQ(v.n) \div 4) \o "."
           \o FractionDigits(AbsQ(v.n) % 4)
    [] OTHER -> "None"

RECURSIVE JoinFrom(_, _)
JoinFrom(l, i) ==
  IF i > Len(l) THEN ""
  ELSE IF i = Len(l) THEN PyStr(l[i])
  ELSE PyStr(l[i]) \o "," \o JoinFrom(l, i + 1)
\* ",".join(str(item) for item in param_data)
JoinStr(l) == JoinFrom(l, 1)

\* ------------------------------------------------ node group structure
\* node_group.interface.new_socket(name, in_out, socket_type): the script has
\* set no bound and no default yet.
NewSocket(name, in_out, socket_type) ==
  [name |-> name, in_out |-> in_out, socket_type |-> socket_type,
   min_value |-> Unset, max_value |-> Unset, default_value |-> Unset]

\* node_group.nodes.new(type) with the attributes the script assigns.
NewNode(type, name, label, x, y, data_type, enum_items) ==
  [type |-> type, name |-> name, label |-> label, x |-> x, y |-> y,
   data_type |-> data_type, enum_items |-> enum_items]

\* bpy.data.node_groups.new: group input and output nodes and the Geometry
\* output socket.
NewNodeGroup(node_group_name) ==
  [name |-> node_group_name,
   sockets |-> <<NewSocket("Geometry", "OUTPUT", "NodeSocketGeometry")>>,
   nodes |-> <<NewNode("NodeGroupInput", "Group Input", "", -200, 0, "", <<>>),
               NewNode("NodeGroupOutput", "Group Output", "", 400, 0, "", <<>>)>>,
   links |-> <<>>,
   props |-> <<>>]

AddSocket(g, socket) == [g EXCEPT !.sockets = Append(@, socket)]
\* node_group[key] = value
SetProp(g, key, value) == [g EXCEPT !.props = Append(@, [key |-> key, value |-> value])]

\* ------------------------------------------------ "range" entries
\* Evaluation of lines 135-158 raises: an index past the end of the list, or
\* int()/float() of a non-numeric element, in Python's evaluation order.
RangeRaises(r) ==
  \/ Len(r) < 2
  \/ /\ Len(r) >= 2
     /\ ~(IsInstanceInt(r[1]) /\ IsInstanceInt(r[2]))
     /\ \/ ConversionRaises(r[1])
        \/ ConversionRaises(r[2])

\* A variant of are_integers without the value test of line 140.
AreIntegersTypedOnly(min_val, max_val) == IsInstanceInt(min_val) /\ IsInstanceInt(max_val)
\* are_integers, for bounds on which int() does not raise.
AreIntegers(min_val, max_val) ==
  \/ IsInstanceInt(min_val) /\ IsInstanceInt(max_val)
  \/ min_val.n = PyInt(min_val).n /\ max_val.n = PyInt(max_val).n

Midpoint(lo, hi) == [t |-> "float", n |-> (lo.n + hi.n) \div 2, s |-> ""]

RangeSocket(param_name, min_val, max_val) ==
  IF AreIntegers(min_val, max_val)
  THEN [NewSocket(param_name, "INPUT", "NodeSocketInt") EXCEPT
          !.min_value = PyInt(min_val),
          !.max_value = PyInt(max_val),
          !.default_value = PyInt(min_val)]
  ELSE [NewSocket(param_name, "INPUT", "NodeSocketFloat") EXCEPT
          !.min_value = PyFloat(min_val),
          !.max_value = PyFloat(max_val),
          !.default_value = Midpoint(PyFloat(min_val), PyFloat(max_val))]

\* ------------------------------------------------ "count" entries
CountRaises(c) ==
  \/ Len(c) < 2
  \/ Len(c) >= 2 /\ (ConversionRaises(c[1]) \/ ConversionRaises(c[2]))

CountSocket(param_name, c) ==
  [NewSocket(param_name, "INPUT", "NodeSocketInt") EXCEPT
     !.min_value = PyInt(c[1]),
     !.max_value = PyInt(c[2]),
     !.default_value = PyInt(c[1])]

\* ------------------------------------------------ list entries
HasStrings(param_data) == \E i \in 1..Len(param_data) : IsInstanceStr(param_data[i])
\* A variant of has_booleans that looks at the first element only.
HasBooleansFirstOnly(param_data) == Len(param_data) = 0 \/ IsInstanceBool(param_data[1])
\* all(isinstance(item, bool) ...): true of the empty list.
HasBooleans(param_data) == \A i \in 1..Len(param_data) : IsInstanceBool(param_data[i])

EnumItem(param_name, option) ==
  [name |-> PyStr(option), description |-> param_name \o " option: " \o PyStr(option)]

RECURSIVE EnumItemsFrom(_, _, _)
EnumItemsFrom(param_name, param_data, i) ==
  IF i > Len(param_data) THEN <<>>
  ELSE (IF IsInstanceStr(param_data[i]) THEN <<EnumItem(param_name, param_data[i])>> ELSE <<>>)
         \o EnumItemsFrom(param_name, param_data, i + 1)
\* The loop of lines 225-229: one enum item per element that is a string.
EnumItems(param_name, param_data) == EnumItemsFrom(param_name, param_data, 1)

MenuSwitchNode(param_name, param_data, y_offset) ==
  NewNode("GeometryNodeMenuSwitch", "MenuSwitch_" \o param_name, param_name, 0, y_offset,
          "GEOMETRY", EnumItems(param_name, param_data))

\* Lines 204-239.
MenuEntry(g, param_name, param_data, y_offset) ==
  LET g1 == AddSocket(g, NewSocket(param_name, "INPUT", "NodeSocketMenu"))
      g2 == [g1 EXCEPT !.nodes = Append(@, MenuSwitchNode(param_name, param_data, y_offset)),
                       !.links = Append(@, [from_node |-> "Group Input", from_socket |-> param_name,
                                            to_node |-> "MenuSwitch_" \o param_name, to_socket |-> "Menu"])]
  IN SetProp(g2, "menu_options_" \o param_name, JoinStr(param_data))

\* Lines 246-258: the socket exists before param_data[0] is read, so an empty
\* list leaves the socket behind and raises IndexError.
BoolEntry(g, param_name, param_data) ==
  LET socket == NewSocket(param_name, "INPUT", "NodeSocketBool")
  IN IF Len(param_data) = 0
     THEN [group |-> AddSocket(g, socket), raised |-> TRUE]
     ELSE [group |-> SetProp(AddSocket(g, [socket EXCEPT !.default_value = param_data[1]]),
                             "bool_options_" \o param_name, JoinStr(param_data)),
           raised |-> FALSE]

\* Lines 260-274.
IndexEntry(g, param_name, param_data) ==
  SetProp(AddSocket(g, [NewSocket(param_name, "INPUT", "NodeSocketInt") EXCEPT
                          !.min_value = JInt(0),
                          !.max_value = JInt(Len(param_data) - 1),
                          !.default_value = JInt(0)]),
          "enum_options_" \o param_name, JoinStr(param_data))

ListEntry(g, param_name, param_data, y_offset) ==
  IF HasStrings(param_data)
  THEN [group |-> MenuEntry(g, param_name, param_data, y_offset), raised |-> FALSE]
  ELSE IF HasBooleans(param_data)
       THEN BoolEntry(g, param_name, param_data)
       ELSE [group |-> IndexEntry(g, param_name, param_data), raised |-> FALSE]

\* ------------------------------------------------ one loop iteration
\* The body of the for loop, lines 129-275, on the group built so far:
\* the group afterwards, and whether an exception left the loop.
ProcessEntry(g, param_name, param_data, y_offset) ==
  IF param_data.t = "dict"
  THEN IF param_data.hasRange
       THEN IF RangeRaises(param_data.range)
            THEN [group |-> g, raised |-> TRUE]
            ELSE [group |-> AddSocket(g, RangeSocket(param_name, param_data.range[1], param_data.range[2])),
                  raised |-> FALSE]
       ELSE IF param_data.hasCount
            THEN IF CountRaises(param_data.count)
                 THEN [group |-> g, raised |-> TRUE]
                 ELSE [group |-> AddSocket(g, CountSocket(param_name, param_data.count)), raised |-> FALSE]
            ELSE [group |-> g, raised |-> FALSE]
  ELSE IF param_data.t = "list"
       THEN ListEntry(g, param_name, param_data.items, y_offset)
       ELSE [group |-> g, raised |-> FALSE]

\* ------------------------------------------------ host registries
\* object_name of lines 43-44 for a file name given as its pieces: the
\* extension is split off and the pieces "_Config" and "_config" are removed.
RECURSIVE ConcatFrom(_, _)
ConcatFrom(pieces, i) == IF i > Len(pieces) THEN "" ELSE pieces[i] \o ConcatFrom(pieces, i + 1)
IsNotConfigSuffix(piece) == piece \notin {"_Config", "_config"}
ObjectName(filename) ==
  ConcatFrom(SelectSeq(SubSeq(filename, 1, Len(filename) - 1), IsNotConfigSuffix), 1)

\* bpy.data.node_groups.remove(bpy.data.node_groups[name]) when the name is taken.
\* A variant without the removal of lines 97-99.
KeepExisting(groups, name) == groups
RemoveExisting(groups, name) ==
  IF name \in DOMAIN groups
  THEN [k \in (DOMAIN groups) \ {name} |-> groups[k]]
  ELSE groups

\* bpy.data.node_groups.new(name=...): the host keeps names unique by a
\* numeric suffix when the name is still taken.
UniqueName(groups, name) == IF name \in DOMAIN groups THEN name \o ".001" ELSE name
PutGroup(groups, g) == [k \in (DOMAIN groups) \cup {g.name} |-> IF k = g.name THEN g ELSE groups[k]]

\* create_simple_materials, the loop of lines 298-315 from part i on: the
\* material registry and the list materials_created afterwards.
RECURSIVE CreateMaterialsFrom(_, _, _, _)
CreateMaterialsFrom(parts, i, mats, created) ==
  IF i > Len(parts) THEN [materials |-> mats, created |-> created]
  ELSE IF parts[i] \in DOMAIN mats
       THEN CreateMaterialsFrom(parts, i + 1, mats, created)
       ELSE CreateMaterialsFrom(parts, i + 1,
              [k \in (DOMAIN mats) \cup {parts[i]} |-> IF k = parts[i] THEN [use_nodes |-> TRUE] ELSE mats[k]],
              Append(created, parts[i]))

\* assign_materials_to_object, lines 339-353: the slots after clear() and
\* one append per listed name that is in the material registry.
RECURSIVE SlotsFrom(_, _, _)
SlotsFrom(material_names, i, mats) ==
  IF i > Len(material_names) THEN <<>>
  ELSE (IF material_names[i] \in DOMAIN mats THEN <<material_names[i]>> ELSE <<>>)
         \o SlotsFrom(material_names, i + 1, mats)

\* ------------------------------------------------ inputs
FileName == <<"Lamp", "_Config", ".json">>

RangeElems == {JInt(3), JInt(-2), JFloat(8), JFloat(6), JFloat(-6), JStr("x")}
ListElems == {JStr("Red"), JStr("Green"), JBool(TRUE), JBool(FALSE), JInt(3)}
Pairs == SeqsUpTo(RangeElems, 2)

\* Every kind of entry value, for configs of a single entry.
RichValues ==
  {RangeDict(r) : r \in Pairs} \cup {CountDict(c) : c \in Pairs}
    \cup {BothDict(r, <<JInt(2), JInt(8)>>) : r \in Pairs}
    \cup {ListValue(l) : l \in SeqsUpTo(ListElems, MaxListLen)}
    \cup {OtherDict, ScalarValue}

\* One value of each kind, for configs of several entries.
CoreValues ==
  {ScalarValue, OtherDict, CountDict(<<JInt(2), JInt(8)>>), RangeDict(<<JInt(3)>>),
   ListValue(<<JStr("Red"), JInt(3)>>), ListValue(<<>>)}

\* The mapping as json.load returns it: distinct names in document order.
MakeConfig(values) == [i \in 1..Len(values) |-> [name |-> "p" \o ToString(i), data |-> values[i]]]
Configs ==
  {MakeConfig(<<v>>) : v \in RichValues} \cup {MakeConfig(vs) : vs \in SeqsUpTo(CoreValues, MaxEntries)}

PartsOptions == {[hasParts |-> FALSE, parts |-> <<>>], [hasParts |-> TRUE, parts |-> <<"Frame">>],
                 [hasParts |-> TRUE, parts |-> <<"Frame", "Door">>]}

\* kind: "missing" (no such file), "badjson" (not JSON), "nokey" (no "config"
\* key), "notdict" ("config" is not an object), "ok".
Files ==
  {[kind |-> k, config |-> <<>>, hasParts |-> FALSE, parts |-> <<>>] :
      k \in {"missing", "badjson", "nokey", "notdict"}}
    \cup {[kind |-> "ok", config |-> c, hasParts |-> p.hasParts, parts |-> p.parts] :
            c \in Configs, p \in PartsOptions}

\* A node group left under the target name by earlier work.
EarlierGroup ==
  AddSocket(NewNodeGroup(ObjectName(FileName)),
            [NewSocket("Legacy", "INPUT", "NodeSocketFloat") EXCEPT
               !.min_value = JFloat(0), !.max_value = JFloat(4), !.default_value = JFloat(2)])

\* main, lines 446-451: the position of the first modifier of type NODES in
\* the object's stack, 0 if there is none.
NeverFound(modifiers) == 0
FirstNodesModifier(modifiers) ==
  IF \E k \in 1..Len(modifiers) : modifiers[k].type = "NODES"
  THEN CHOOSE k \in 1..Len(modifiers) :
         /\ modifiers[k].type = "NODES"
         /\ \A j \in 1..(k - 1) : modifiers[j].type # "NODES"
  ELSE 0

\* main, lines 446-460: reuse the first NODES modifier or create one named
\* after the group, then point it at the group.
ApplyModifier(modifiers, group_name) ==
  LET k == FirstNodesModifier(modifiers) IN
    IF k = 0
    THEN Append(modifiers, [type |-> "NODES", name |-> group_name, node_group |-> group_name])
    ELSE [modifiers EXCEPT ![k].node_group = group_name]

\* bpy.data.node_groups.remove unlinks the group from its users: a modifier
\* that pointed at it points at nothing.
UnlinkUsers(modifiers, groups, name) ==
  [k \in 1..Len(modifiers) |->
     IF name \in DOMAIN groups /\ modifiers[k].node_group = name
     THEN [modifiers[k] EXCEPT !.node_group = ""]
     ELSE modifiers[k]]

\* How main resolves the config path with CONFIG_PATH = None: a command-line
\* argument, the sole *_Config.json next to the .blend file, or none, several,
\* or an unsaved .blend file (main returns without compiling).
PathOutcomes == {"argv", "sole", "none", "many", "unsaved"}
ConfigPathFound(outcome) == outcome \in {"argv", "sole"}

Subsurf == [type |-> "SUBSURF", name |-> "Subdivision", node_group |-> ""]
ModifierStacks ==
  {<<>>, <<Subsurf>>,
   <<Subsurf, [type |-> "NODES", name |-> "GeometryNodes", node_group |-> ""],
     [type |-> "NODES", name |-> "GeometryNodes.001", node_group |-> ""]>>}

NoObject ==
  [present |-> FALSE, has_materials |-> FALSE, slots |-> <<>>, has_modifiers |-> FALSE,
   modifiers |-> <<>>]
\* No object, a mesh with a material slot and some modifier stack, or an
\* object (an empty, a camera) with neither materials nor modifiers.
Objects ==
  {NoObject,
   [present |-> TRUE, has_materials |-> FALSE, slots |-> <<>>, has_modifiers |-> FALSE,
    modifiers |-> <<>>]}
    \cup {[present |-> TRUE, has_materials |-> TRUE, slots |-> <<"Material">>,
           has_modifiers |-> TRUE, modifiers |-> m] : m \in ModifierStacks}

\* ------------------------------------------------ state
VARIABLES
  file,              \* the config file on disk
  node_groups,       \* bpy.data.node_groups: name -> node group
  materials,         \* bpy.data.materials: name -> material
  active_object,     \* bpy.context.active_object
  pc,                \* position of the run
  runs,              \* runs of load_config_file started so far (main calls it once)
  node_group,        \* create_parameter_node_group's local: name of the group being built
  idx,               \* position of the for loop in config_data["config"]
  y_offset,          \* create_parameter_node_group's local
  load_node_group,   \* load_config_file's local node_group: "" before the call returns
  materials_created, \* create_simple_materials' result
  result,            \* load_config_file's return value: "pending", "None" or the group's name
  pre_run,           \* the registries when the current run started
  initial_modifiers  \* the active object's modifier stack before the script first ran

vars == <<file, node_groups, materials, active_object, pc, runs, node_group, idx, y_offset,
          load_node_group, materials_created, result, pre_run, initial_modifiers>>

object_name == ObjectName(FileName)

Init ==
  /\ file \in Files
  /\ node_groups \in {<<>>, [k \in {object_name} |-> EarlierGroup]}
  /\ materials \in {[k \in {"Material"} |-> [use_nodes |-> FALSE]],
                    [k \in {"Material", "Frame"} |-> [use_nodes |-> FALSE]]}
  /\ active_object \in Objects
  /\ pc = "idle"
  /\ runs = 0
  /\ node_group = ""
  /\ idx = 0
  /\ y_offset = 0
  /\ load_node_group = ""
  /\ materials_created = <<>>
  /\ result = "pending"
  /\ pre_run = [node_groups |-> node_groups, materials |-> materials]
  /\ initial_modifiers = active_object.modifiers

\* main up to the call of load_config_file: without a config path it returns
\* and nothing has changed.
Main ==
  /\ pc = "idle"
  /\ runs < MaxRuns
  /\ \E outcome \in PathOutcomes :
       pc' = IF ConfigPathFound(outcome) THEN "load" ELSE "idle"
  /\ UNCHANGED <<file, node_groups, materials, active_object, runs, node_group, idx, y_offset,
                 load_node_group, materials_created, result, pre_run, initial_modifiers>>

\* load_config_file up to the call of create_parameter_node_group: a missing
\* file, invalid JSON and a missing "config" key return None at once.
LoadConfigFile ==
  /\ pc = "load"
  /\ runs < MaxRuns
  /\ runs' = runs + 1
  /\ pre_run' = [node_groups |-> node_groups, materials |-> materials]
  /\ node_group' = ""
  /\ idx' = 0
  /\ y_offset' = 0
  /\ load_node_group' = ""
  /\ materials_created' = <<>>
  /\ IF file.kind \in {"missing", "badjson", "nokey"}
     THEN pc' = "apply" /\ result' = "None"
     ELSE pc' = "create" /\ result' = "pending"
  /\ UNCHANGED <<file, node_groups, materials, active_object, initial_modifiers>>

\* create_parameter_node_group up to the for loop: delete, then recreate.
CreateNodeGroup ==
  /\ pc = "create"
  /\ LET remaining == RemoveExisting(node_groups, object_name)
         g == NewNodeGroup(UniqueName(remaining, object_name))
     IN /\ node_groups' = PutGroup(remaining, g)
        /\ node_group' = g.name
  /\ active_object' =
       [active_object EXCEPT !.modifiers = UnlinkUsers(@, node_groups, object_name)]
  /\ y_offset' = 0
  /\ IF file.kind = "notdict"
     THEN pc' = "except" /\ idx' = idx
     ELSE pc' = "loop" /\ idx' = 1
  /\ UNCHANGED <<file, materials, runs, load_node_group, materials_created,
                 result, pre_run, initial_modifiers>>

\* One iteration of the for loop.
ProcessParameter ==
  /\ pc = "loop"
  /\ idx <= Len(file.config)
  /\ LET r == ProcessEntry(node_groups[node_group], file.config[idx].name,
                           file.config[idx].data, y_offset)
     IN /\ node_groups' = [node_groups EXCEPT ![node_group] = r.group]
        /\ IF r.raised
           THEN pc' = "except" /\ idx' = idx /\ y_offset' = y_offset
           ELSE pc' = "loop" /\ idx' = idx + 1 /\ y_offset' = y_offset - 50
  /\ UNCHANGED <<file, materials, active_object, runs, node_group, load_node_group,
                 materials_created, result, pre_run, initial_modifiers>>

\* The loop is over: create_parameter_node_group returns the group, and
\* load_config_file goes on to the "parts" section.
ReturnNodeGroup ==
  /\ pc = "loop"
  /\ idx > Len(file.config)
  /\ load_node_group' = node_group
  /\ pc' = IF file.hasParts THEN "materials" ELSE "summary"
  /\ UNCHANGED <<file, node_groups, materials, active_object, runs, node_group, idx, y_offset,
                 materials_created, result, pre_run, initial_modifiers>>

\* The except clause of create_parameter_node_group returns None, and
\* load_config_file reports the failure and returns None.
ExceptNodeGroup ==
  /\ pc = "except"
  /\ load_node_group' = "None"
  /\ result' = "None"
  /\ pc' = "apply"
  /\ UNCHANGED <<file, node_groups, materials, active_object, runs, node_group, idx, y_offset,
                 materials_created, pre_run, initial_modifiers>>

\* create_simple_materials, then the test of line 68.
CreateSimpleMaterials ==
  /\ pc = "materials"
  /\ LET r == CreateMaterialsFrom(file.parts, 1, materials, <<>>)
     IN /\ materials' = r.materials
        /\ materials_created' = r.created
        /\ pc' = IF r.created # <<>> /\ active_object.present THEN "assign" ELSE "summary"
  /\ UNCHANGED <<file, node_groups, active_object, runs, node_group, idx, y_offset,
                 load_node_group, result, pre_run, initial_modifiers>>

\* assign_materials_to_object(materials, bpy.context.active_object).
AssignMaterialsToObject ==
  /\ pc = "assign"
  /\ active_object' =
       IF active_object.has_materials
       THEN [active_object EXCEPT !.slots = SlotsFrom(materials_created, 1, materials)]
       ELSE active_object
  /\ pc' = "summary"
  /\ UNCHANGED <<file, node_groups, materials, runs, node_group, idx, y_offset,
                 load_node_group, materials_created, result, pre_run, initial_modifiers>>

\* The summary and "return node_group" of load_config_file.
LoadReturn ==
  /\ pc = "summary"
  /\ result' = load_node_group
  /\ pc' = "apply"
  /\ UNCHANGED <<file, node_groups, materials, active_object, runs, node_group, idx, y_offset,
                 load_node_group, materials_created, pre_run, initial_modifiers>>

\* main after load_config_file, lines 441-475: with a group and an active
\* object the group goes on the object's first NODES modifier, or on a new
\* one; an object without a modifier stack raises, which main catches.
ApplyNodeGroup ==
  /\ pc = "apply"
  /\ active_object' =
       IF result # "None" /\ active_object.present /\ active_object.has_modifiers
       THEN [active_object EXCEPT !.modifiers = ApplyModifier(@, result)]
       ELSE active_object
  /\ pc' = "idle"
  /\ UNCHANGED <<file, node_groups, materials, runs, node_group, idx, y_offset,
                 load_node_group, materials_created, result, pre_run, initial_modifiers>>

Next ==
  \/ Main
  \/ LoadConfigFile
  \/ CreateNodeGroup
  \/ ProcessParameter
  \/ ReturnNodeGroup
  \/ ExceptNodeGroup
  \/ CreateSimpleMaterials
  \/ AssignMaterialsToObject
  \/ LoadReturn
  \/ ApplyNodeGroup

Spec == Init /\ [][Next]_vars

\* ------------------------------------------------ vocabulary of the claims
IsNumber(v) == v.t \in {"int", "float"}
IntegerValued(v) == v.n % 4 = 0
NumericPair(l) == Len(l) >= 2 /\ IsNumber(l[1]) /\ IsNumber(l[2])

\* The group the current run is building or has built.
HasGroup == node_group # "" /\ node_group \in DOMAIN node_groups
Group == node_groups[node_group]
\* Entry i of the config has been through the loop body without an exception.
Processed(i) == HasGroup /\ i \in 1..Len(file.config) /\ i < idx
InputsNamed(g, name) ==
  {k \in 1..Len(g.sockets) : g.sockets[k].in_out = "INPUT" /\ g.sockets[k].name = name}
PropsKeyed(g, key) == {k \in 1..Len(g.props) : g.props[k].key = key}
NodesNamed(g, name) == {k \in 1..Len(g.nodes) : g.nodes[k].name = name}
IsInput(socket) == socket.in_out = "INPUT"
InputNames(g) ==
  LET ins == SelectSeq(g.sockets, IsInput) IN [k \in 1..Len(ins) |-> ins[k].name]
RunEnded == pc = "idle" /\ runs >= 1

\* C1: every input socket of the built group whose min and max the script has
\* set satisfies min <= default <= max.
C1_MinDefaultMax ==
  HasGroup =>
    \A k \in 1..Len(Group.sockets) :
      LET socket == Group.sockets[k] IN
        (IsInput(socket) /\ socket.min_value # Unset /\ socket.max_value # Unset) =>
          (socket.min_value.n <= socket.default_value.n
             /\ socket.default_value.n <= socket.max_value.n)

\* C2: a processed entry with "range" = [lo, hi] of numbers has exactly one
\* input socket; with both bounds integer-valued it is Int with min = floor(lo),
\* max = floor(hi), default = min, otherwise Float with min = lo, max = hi,
\* default = (lo + hi) / 2; a "count" key next to "range" changes nothing.
C2_RangeRule ==
  \A i \in 1..Len(file.config) :
    LET e == file.config[i] IN
      (Processed(i) /\ e.data.t = "dict" /\ e.data.hasRange /\ NumericPair(e.data.range)) =>
        /\ Cardinality(InputsNamed(Group, e.name)) = 1
        /\ \A k \in InputsNamed(Group, e.name) :
             LET socket == Group.sockets[k]
                 lo == e.data.range[1]
                 hi == e.data.range[2]
             IN IF IntegerValued(lo) /\ IntegerValued(hi)
                THEN /\ socket.socket_type = "NodeSocketInt"
                     /\ socket.min_value = [t |-> "int", n |-> 4 * FloorQuarters(lo.n), s |-> ""]
                     /\ socket.max_value = [t |-> "int", n |-> 4 * FloorQuarters(hi.n), s |-> ""]
                     /\ socket.default_value = socket.min_value
                ELSE /\ socket.socket_type = "NodeSocketFloat"
                     /\ socket.min_value = [t |-> "float", n |-> lo.n, s |-> ""]
                     /\ socket.max_value = [t |-> "float", n |-> hi.n, s |-> ""]
                     /\ socket.default_value.t = "float"
                     /\ 2 * socket.default_value.n = lo.n + hi.n

\* A processed entry holds both keys, with a float-typed integer-valued bound
\* next to an integer-typed one, and has its Int socket.
C2_Witness ==
  \E i \in 1..Len(file.config) :
    LET e == file.config[i] IN
      /\ Processed(i) /\ e.data.t = "dict" /\ e.data.hasRange /\ e.data.hasCount
      /\ NumericPair(e.data.range)
      /\ e.data.range[1].t = "float" /\ e.data.range[2].t = "int"
      /\ IntegerValued(e.data.range[1])
      /\ \E k \in InputsNamed(Group, e.name) : Group.sockets[k].socket_type = "NodeSocketInt"

\* C3 as claimed: a processed entry without "range" and with "count" = [a, b]
\* of numbers has one Int socket with min = floor(a), max = floor(b), default = min.
C3_CountFloor ==
  \A i \in 1..Len(file.config) :
    LET e == file.config[i] IN
      (Processed(i) /\ e.data.t = "dict" /\ ~e.data.hasRange /\ e.data.hasCount
         /\ NumericPair(e.data.count)) =>
        /\ Cardinality(InputsNamed(Group, e.name)) = 1
        /\ \A k \in InputsNamed(Group, e.name) :
             LET socket == Group.sockets[k] IN
               /\ socket.socket_type = "NodeSocketInt"
               /\ socket.min_value = [t |-> "int", n |-> 4 * FloorQuarters(e.data.count[1].n), s |-> ""]
               /\ socket.max_value = [t |-> "int", n |-> 4 * FloorQuarters(e.data.count[2].n), s |-> ""]
               /\ socket.default_value = socket.min_value

\* C3 as amended: the same with a and b truncated toward zero.
C3_CountTrunc ==
  \A i \in 1..Len(file.config) :
    LET e == file.config[i] IN
      (Processed(i) /\ e.data.t = "dict" /\ ~e.data.hasRange /\ e.data.hasCount
         /\ NumericPair(e.data.count)) =>
        /\ Cardinality(InputsNamed(Group, e.name)) = 1
        /\ \A k \in InputsNamed(Group, e.name) :
             LET socket == Group.sockets[k] IN
               /\ socket.socket_type = "NodeSocketInt"
               /\ socket.min_value = [t |-> "int", n |-> 4 * TruncTowardZero(e.data.count[1].n), s |-> ""]
               /\ socket.max_value = [t |-> "int", n |-> 4 * TruncTowardZero(e.data.count[2].n), s |-> ""]
               /\ socket.default_value = socket.min_value

\* A processed "count" entry has a negative non-integer lower bound.
C3_Witness ==
  \E i \in 1..Len(file.config) :
    LET e == file.config[i] IN
      /\ Processed(i) /\ e.data.t = "dict" /\ ~e.data.hasRange /\ e.data.hasCount
      /\ NumericPair(e.data.count)
      /\ e.data.count[1].n < 0 /\ ~IntegerValued(e.data.count[1])
      /\ InputsNamed(Group, e.name) # {}

\* str() of the list elements of the input set, as Python prints them.
ElemText(v) ==
  CASE v = JStr("Red") -> "Red"
    [] v = JStr("Green") -> "Green"
    [] v = JBool(TRUE) -> "True"
    [] v = JBool(FALSE) -> "False"
    [] v = JInt(3) -> "3"
    [] OTHER -> "?"
RECURSIVE OptionsTextFrom(_, _)
OptionsTextFrom(items, i) ==
  IF i > Len(items) THEN ""
  ELSE ElemText(items[i]) \o (IF i < Len(items) THEN "," ELSE "") \o OptionsTextFrom(items, i + 1)
\* The string-coerced elements in their original order, as the stored text.
OptionsText(items) == OptionsTextFrom(items, 1)
AnyString(items) == \E k \in 1..Len(items) : items[k].t = "str"
AllBoolean(items) == \A k \in 1..Len(items) : items[k].t = "bool"
HasOneProp(g, key, value) ==
  /\ Cardinality(PropsKeyed(g, key)) = 1
  /\ \A k \in PropsKeyed(g, key) : g.props[k].value = value

\* C4: a processed non-empty list entry has exactly one input socket: a menu
\* socket without bounds if any element is a string, else a Bool socket whose
\* default is the first element if every element is a boolean, else an Int
\* socket with min = 0, max = length - 1, default = 0; and the stored options
\* text is the string-coerced elements in their order.
C4_ListRule ==
  \A i \in 1..Len(file.config) :
    LET e == file.config[i]
        items == e.data.items
    IN (Processed(i) /\ e.data.t = "list" /\ Len(items) >= 1) =>
         /\ Cardinality(InputsNamed(Group, e.name)) = 1
         /\ \A k \in InputsNamed(Group, e.name) :
              LET socket == Group.sockets[k] IN
                IF AnyString(items)
                THEN /\ socket.socket_type = "NodeSocketMenu"
                     /\ socket.min_value = Unset /\ socket.max_value = Unset
                     /\ HasOneProp(Group, "menu_options_" \o e.name, OptionsText(items))
                ELSE IF AllBoolean(items)
                THEN /\ socket.socket_type = "NodeSocketBool"
                     /\ socket.default_value = items[1]
                     /\ HasOneProp(Group, "bool_options_" \o e.name, OptionsText(items))
                ELSE /\ socket.socket_type = "NodeSocketInt"
                     /\ socket.min_value = JInt(0)
                     /\ socket.max_value = JInt(Len(items) - 1)
                     /\ socket.default_value = JInt(0)
                     /\ HasOneProp(Group, "enum_options_" \o e.name, OptionsText(items))

\* A processed list starts with a boolean, holds a number too, and has its
\* index socket with max = 1.
C4_Witness ==
  \E i \in 1..Len(file.config) :
    LET e == file.config[i] IN
      /\ Processed(i) /\ e.data.t = "list"
      /\ e.data.items = <<JBool(TRUE), JInt(3)>>
      /\ \E k \in InputsNamed(Group, e.name) :
           Group.sockets[k].socket_type = "NodeSocketInt" /\ Group.sockets[k].max_value = JInt(1)

\* C5: for a processed list entry with a string element, the menu switch
\* node's items are the string-coerced elements of the whole list, one per
\* element and in order.
C5_BranchesAreAllOptions ==
  \A i \in 1..Len(file.config) :
    LET e == file.config[i]
        items == e.data.items
    IN (Processed(i) /\ e.data.t = "list" /\ AnyString(items)) =>
         /\ Cardinality(NodesNamed(Group, "MenuSwitch_" \o e.name)) = 1
         /\ \A k \in NodesNamed(Group, "MenuSwitch_" \o e.name) :
              /\ Len(Group.nodes[k].enum_items) = Len(items)
              /\ \A j \in 1..Len(items) : Group.nodes[k].enum_items[j].name = ElemText(items[j])

\* Entries of the kinds the classification rules name and that are well
\* formed: a numeric pair under "range", else under "count", or a non-empty list.
Classifiable(d) ==
  \/ d.t = "dict" /\ d.hasRange /\ NumericPair(d.range)
  \/ d.t = "dict" /\ ~d.hasRange /\ d.hasCount /\ NumericPair(d.count)
  \/ d.t = "list" /\ Len(d.items) >= 1
Skipped(d) == d.t = "scalar" \/ (d.t = "dict" /\ ~d.hasRange /\ ~d.hasCount)
IsClassifiableEntry(e) == Classifiable(e.data)
ClassifiableNames(config) ==
  LET es == SelectSeq(config, IsClassifiableEntry) IN [k \in 1..Len(es) |-> es[k].name]
NoEmptyList(config) == \A i \in 1..Len(config) : ~(config[i].data.t = "list" /\ config[i].data.items = <<>>)

\* C6: for a document whose "config" is an object (here: without an empty
\* list), create_parameter_node_group never returns None.
C6_ReturnsInterface ==
  (file.kind = "ok" /\ NoEmptyList(file.config)) => load_node_group # "None"

\* C7: after a run on a config that holds a scalar or key-less object entry
\* (and no empty list), the group's input sockets are exactly the classifiable
\* entries, one each, in document order.
C7_SkipLeavesOthers ==
  (RunEnded /\ file.kind = "ok" /\ NoEmptyList(file.config)
     /\ \E i \in 1..Len(file.config) : Skipped(file.config[i].data)) =>
    /\ object_name \in DOMAIN node_groups
    /\ InputNames(node_groups[object_name]) = ClassifiableNames(file.config)

\* C8: when a second (or later) run on the same document ends, both
\* registries are as the run before left them, the run created no material,
\* and after a successful run the node-group registry holds the target name
\* and nothing else.
C8_SecondRunIdempotent ==
  (pc = "idle" /\ runs >= 2) =>
    /\ node_groups = pre_run.node_groups
    /\ materials = pre_run.materials
    /\ materials_created = <<>>
    /\ (result # "None" => DOMAIN node_groups = {object_name})

\* A second successful run has ended on a document with parameters and with
\* parts of which the first run created "Door".
C8_Witness ==
  /\ pc = "idle" /\ runs = 2 /\ result = object_name
  /\ file.parts = <<"Frame", "Door">>
  /\ "Door" \in DOMAIN materials
  /\ Len(InputNames(node_groups[object_name])) >= 2

\* C9: after a successful run on a document with "parts" and with an active
\* object that can hold materials, the object's slots are the "parts" keys in
\* order.
C9_SlotsAreAllParts ==
  (RunEnded /\ result # "None" /\ file.hasParts
     /\ active_object.present /\ active_object.has_materials) =>
    active_object.slots = file.parts

\* C10: after a run that returned None (on a config without an empty list),
\* the registry holds under the target name nothing, or the group that was
\* there before any run, or a group with a socket for every classifiable entry.
C10_NoPartialInterface ==
  (RunEnded /\ result = "None" /\ NoEmptyList(file.config)) =>
    \/ object_name \notin DOMAIN node_groups
    \/ node_groups[object_name] = EarlierGroup
    \/ InputNames(node_groups[object_name]) = ClassifiableNames(file.config)

\* C11: for a config whose entries are skipped, classifiable or an empty list
\* (so that nothing but an empty list can raise),
\* create_parameter_node_group never returns None.
C11_EmptyListNotFatal ==
  (file.kind = "ok"
     /\ \A i \in 1..Len(file.config) :
          LET d == file.config[i].data IN
            Skipped(d) \/ Classifiable(d) \/ (d.t = "list" /\ d.items = <<>>)) =>
    load_node_group # "None"

NodesPositions(modifiers) == {k \in 1..Len(modifiers) : modifiers[k].type = "NODES"}
HasNodes(modifiers) == NodesPositions(modifiers) # {}
LowestNodes(modifiers) ==
  CHOOSE k \in NodesPositions(modifiers) : \A j \in NodesPositions(modifiers) : k <= j

\* C12: over any number of runs of main the object's modifier stack is the
\* one it had before the script first ran, but for the group reference of
\* its first NODES modifier, or, when it had no NODES modifier, that stack
\* with at most one NODES modifier appended (never a second); and when a
\* successful run with an active object that has a modifier stack is over,
\* the first NODES modifier references the group that run compiled, which is
\* the one in the registry.
C12_OneModifier ==
  LET mods == active_object.modifiers IN
    /\ IF HasNodes(initial_modifiers)
       THEN /\ Len(mods) = Len(initial_modifiers)
            /\ \A k \in 1..Len(mods) :
                 IF k = LowestNodes(initial_modifiers)
                 THEN mods[k].type = "NODES" /\ mods[k].name = initial_modifiers[k].name
                 ELSE mods[k] = initial_modifiers[k]
       ELSE \/ mods = initial_modifiers
            \/ /\ Len(mods) = Len(initial_modifiers) + 1
               /\ SubSeq(mods, 1, Len(initial_modifiers)) = initial_modifiers
               /\ mods[Len(mods)].type = "NODES"
    /\ (RunEnded /\ result # "None" /\ active_object.present /\ active_object.has_modifiers) =>
         /\ HasNodes(mods)
         /\ mods[LowestNodes(mods)].node_group = result
         /\ result \in DOMAIN node_groups
         /\ node_groups[result].name = result

\* A second successful run is over on an object that had two NODES modifiers:
\* the first references the group, the second still references nothing.
C12_Witness ==
  /\ pc = "idle" /\ runs = 2 /\ result = object_name
  /\ Cardinality(NodesPositions(initial_modifiers)) = 2
  /\ Len(active_object.modifiers) = 3
  /\ active_object.modifiers[2].node_group = object_name
  /\ active_object.modifiers[3].node_group = ""

\* A second successful run is over on an object that had no NODES modifier:
\* the one the first run created has been reused.
C12_WitnessCreated ==
  /\ pc = "idle" /\ runs = 2 /\ result = object_name
  /\ initial_modifiers = <<Subsurf>>
  /\ Len(active_object.modifiers) = 2

====
